---- MODULE Spec2Model ----
(***************************************************************************)
(* State-machine model of youtube-transcript-adk:                          *)
(*   youtube_transcript_adk/transcriptor.py  YouTubeTranscriptor           *)
(*   youtube_transcript_adk/agent.py         the three agent tools         *)
(*   test_transcript.py, test_search.py      the two command-line mains    *)
(*   youtube_transcript_adk/searcher.py      YouTubeSearch                 *)
(*                                                                         *)
(* Times (cue start, duration, segment start/end) are floats in the code.  *)
(* The model keeps them as integers counted in ticks, TicksPerSecond ticks *)
(* to the second, so that a start can fall strictly between two whole      *)
(* seconds.  segment_length is an integer number of seconds, as in the     *)
(* code.  Texts are TLA+ strings.  The language argument only travels to    *)
(* the caption backend and is left out; what the backend answers is chosen *)
(* by the actions.  Exceptions are named by their Python class.            *)
(***************************************************************************)
EXTENDS Integers, Sequences, FiniteSets, TLC

\* ---------------------------------------------------------------- bounds
MaxCues == 3          \* cues in a transcript
MaxStart == 4         \* largest cue start, in ticks
MaxLen == 2           \* largest segment_length, in seconds
TicksPerSecond == 2   \* resolution of the time axis
MaxItems == 2         \* items handed to get_transcript_text
MaxDays == 1          \* whole days in a rendered start
MaxVideos == 2        \* items in a search response

\* transcriptor.py:130  segment_length: int = 5
DefaultSegmentLength == 5

VARIABLES
    entry,            \* the operation the caller invoked
    url,              \* url_or_id argument
    translate,        \* translate argument
    segment_length,   \* segment_length argument (seconds)
    pc,               \* position inside the invoked operation
    calls,            \* history: backend calls made so far and how each ended
    video_id,         \* video id extracted by the glue
    transcript,       \* cue list returned by get_transcript
    idx,              \* position of the builder's scan in transcript
    segments,         \* the builder's result list
    current_segment,  \* the builder's in-progress segment
    emitted,          \* history: per emitted segment, the cue indices folded into it
    folded,           \* history: cue indices folded into current_segment
    failure,          \* history: exception raised inside the operation, or "none"
    raised,           \* exception that left the operation, or "none"
    response,         \* record returned by an agent tool
    exit_code,        \* value returned by a command-line main, or -1
    include_timestamps, \* -s / include_timestamps argument
    output,           \* TRUE when the transcript CLI got -o
    text_out,         \* string produced by get_transcript_text
    files,            \* files the transcript CLI has written
    api_key,          \* TRUE when YOUTUBE_API_KEY is set
    next_page,        \* TRUE when the search CLI got --next-page
    videos,           \* number of video records built by the search
    api_items,        \* items of the search response, each by its kind
    next_page_token   \* TRUE when the search response has a nextPageToken

vars == <<entry, url, translate, segment_length, pc, calls, video_id, transcript,
          idx, segments, current_segment, emitted, folded, failure, raised, response,
          exit_code, include_timestamps, output, text_out, files, api_key,
          next_page, videos, api_items, next_page_token>>

\* groups of variables an action leaves alone
args == <<entry, url, translate, segment_length, output, api_key, next_page>>
scan == <<idx, segments, current_segment, emitted, folded>>
outcome == <<failure, raised, response, exit_code>>
search == <<videos, api_items, next_page_token>>

\* ------------------------------------------------------------ input sets
\* segment_length seconds as ticks.
Ticks(seconds) == seconds * TicksPerSecond

\* the sequences over S of length at most n
SeqsUpTo(S, n) == UNION {[1 .. k -> S] : k \in 0 .. n}

Texts == {"", "a"}
Starts == -1 .. MaxStart
Durations == {1}
Cues == [text : Texts, start : Starts, duration : Durations]

\* cues a@0s, b@3s, c@12s
ScenarioA == << [text |-> "a", start |-> Ticks(0), duration |-> Ticks(2)],
                [text |-> "b", start |-> Ticks(3), duration |-> Ticks(1)],
                [text |-> "c", start |-> Ticks(12), duration |-> Ticks(1)] >>

Transcripts == SeqsUpTo(Cues, MaxCues) \cup {ScenarioA}
GlueTranscripts == {<<>>, ScenarioA}
Lengths == (-1 .. MaxLen) \cup {DefaultSegmentLength}
Urls == {"dQw4w9WgXcQ", "not a url"}

\* starts for the renderer: whole days, a time of day in seconds, a fraction
DaySeconds == 86400
RenderStarts ==
    {Ticks(d * DaySeconds + x) + f : d \in -1 .. MaxDays, x \in {65, 86399}, f \in {0, 1}}
RenderItems ==
    [text : {"", "hello"}, start : RenderStarts, duration : {1}]
      \cup {[start |-> s, text |-> "hello", end |-> s + Ticks(DefaultSegmentLength)] :
              s \in RenderStarts}
RenderInputs == SeqsUpTo(RenderItems, MaxItems)

NoSegment == [start |-> 0, text |-> "", end |-> 0]
NoResponse == [status |-> "none"]

\* ------------------------------------------------- YouTubeTranscriptor
\* Python's a // b (floor division, either sign of b; b # 0).
PyFloorDiv(a, b) == IF b > 0 THEN a \div b ELSE (0 - a) \div (0 - b)

\* transcriptor.py:146  the initial segment.
InitialSegment(len) == [start |-> 0, text |-> "", end |-> Ticks(len)]

\* Variant of InOpenSegment: a cue that starts at the segment's end is folded too.
InOpenSegmentInclusive(item, cur) == item.start <= cur.end

\* Variant of InOpenSegment: a cue is folded only when it also ends in the segment.
InOpenSegmentWholeCue(item, cur) == item.start + item.duration <= cur.end

\* transcriptor.py:153  the test that folds a cue into the open segment.
InOpenSegment(item, cur) == item.start < cur.end

\* Variant of FoldText: the separator is forgotten.
FoldTextNoSpace(cur, item) == [cur EXCEPT !.text = cur.text \o item.text]

\* transcriptor.py:154  the fold.
FoldText(cur, item) == [cur EXCEPT !.text = cur.text \o " " \o item.text]

\* Variant of SegmentStart: the bucket index is not multiplied back to a time.
SegmentStartBucketIndex(item_start, len) == PyFloorDiv(item_start, Ticks(len))

\* Variant of SegmentStart: the new bucket continues at the open segment's end.
SegmentStartAtPreviousEnd(item_start, len) == current_segment.end

\* transcriptor.py:161  the grid start of the bucket holding item_start.
SegmentStart(item_start, len) == PyFloorDiv(item_start, Ticks(len)) * Ticks(len)

\* Variant of NewSegment: the end is measured from the cue, not from the grid.
NewSegmentEndFromCue(item, len) ==
    [start |-> SegmentStart(item.start, len),
     text  |-> item.text,
     end   |-> item.start + Ticks(len)]

\* transcriptor.py:162-166  the segment a cue opens.
NewSegment(item, len) ==
    [start |-> SegmentStart(item.start, len),
     text  |-> item.text,
     end   |-> SegmentStart(item.start, len) + Ticks(len)]

\* Variant of ShouldEmit: the emptiness test is dropped.
AlwaysEmit(cur) == TRUE

\* transcriptor.py:157 and 169  "if current_segment['text']:".
ShouldEmit(cur) == cur.text # ""

\* transcriptor.py:157-158, 169-170  append the open segment when it has text.
Emit(segs, cur) == IF ShouldEmit(cur) THEN Append(segs, cur) ELSE segs

\* transcriptor.py:148-170  the loop over the cues from cue i on, and the
\* final append (segment_length # 0).
RECURSIVE ScanFrom(_, _, _, _, _)
ScanFrom(cues, i, segs, cur, len) ==
    IF i > Len(cues) THEN Emit(segs, cur)
    ELSE IF InOpenSegment(cues[i], cur)
    THEN ScanFrom(cues, i + 1, segs, FoldText(cur, cues[i]), len)
    ELSE ScanFrom(cues, i + 1, Emit(segs, cur), NewSegment(cues[i], len), len)

\* transcriptor.py:143-172  the segments get_transcript_by_segments returns for
\* the cues get_transcript gave it.
get_transcript_by_segments(cues, len) == ScanFrom(cues, 1, <<>>, InitialSegment(len), len)

\* ---- get_transcript_text
\* Variant of gmtime: the seconds are not reduced to a time of day.
gmtimeNoWrap(start) ==
    LET secs == start \div TicksPerSecond
    IN  [tm_hour |-> secs \div 3600, tm_min |-> (secs % 3600) \div 60, tm_sec |-> secs % 60]

\* time.gmtime: whole seconds (floor) since the epoch as a time of day.
gmtime(start) ==
    LET secs == start \div TicksPerSecond
        rem  == secs % DaySeconds
    IN  [tm_hour |-> rem \div 3600, tm_min |-> (rem % 3600) \div 60, tm_sec |-> rem % 60]

\* %H, %M, %S: two digits, zero padded.
Pad2(n) == IF n < 10 THEN "0" \o ToString(n) ELSE ToString(n)

\* transcriptor.py:122  time.strftime('%H:%M:%S', time.gmtime(item['start']))
strftime(tm) == Pad2(tm.tm_hour) \o ":" \o Pad2(tm.tm_min) \o ":" \o Pad2(tm.tm_sec)

\* transcriptor.py:123  f"[{timestamp}] {item['text']}"
TimestampLine(item) == "[" \o strftime(gmtime(item.start)) \o "] " \o item.text

\* str.join
RECURSIVE Join(_, _)
Join(sep, strs) ==
    IF Len(strs) = 0 THEN ""
    ELSE IF Len(strs) = 1 THEN strs[1]
    ELSE strs[1] \o sep \o Join(sep, Tail(strs))

\* transcriptor.py:118-127
get_transcript_text(items, with_timestamps) ==
    IF with_timestamps
    THEN Join("\n", [i \in 1 .. Len(items) |-> TimestampLine(items[i])])
    ELSE Join(" ", [i \in 1 .. Len(items) |-> items[i].text])

\* ---- extract_video_id
RECURSIVE Flatten(_)
Flatten(ss) == IF Len(ss) = 0 THEN <<>> ELSE Head(ss) \o Flatten(Tail(ss))

Least(S) == CHOOSE x \in S : \A y \in S : x <= y

\* s[i-1:i]: the character at i, "" outside the string
Char(s, i) == IF i >= 1 /\ i <= Len(s) THEN SubSeq(s, i, i) ELSE ""

\* [a-zA-Z0-9_-]
IdChars == {"a","b","c","d","e","f","g","h","i","j","k","l","m","n","o","p","q","r",
            "s","t","u","v","w","x","y","z","A","B","C","D","E","F","G","H","I","J",
            "K","L","M","N","O","P","Q","R","S","T","U","V","W","X","Y","Z","0","1",
            "2","3","4","5","6","7","8","9","_","-"}

\* \s, and [^\w\s-] on ASCII input
Whitespace == {" ", "\n", "\t", "\r"}
IsSeparator(c) == c # "" /\ c \notin IdChars /\ c \notin Whitespace

UpperLetters == "ABCDEFGHIJKLMNOPQRSTUVWXYZ"
LowerLetters == "abcdefghijklmnopqrstuvwxyz"
Lower(c) ==
    IF \E i \in 1 .. 26 : Char(UpperLetters, i) = c
    THEN Char(LowerLetters, CHOOSE i \in 1 .. 26 : Char(UpperLetters, i) = c)
    ELSE c

\* the literal lit (lower case) occurs in s at p; re.IGNORECASE
LitAt(s, p, lit) ==
    /\ p >= 1
    /\ p + Len(lit) - 1 <= Len(s)
    /\ \A k \in 1 .. Len(lit) : Lower(Char(s, p + k - 1)) = Char(lit, k)

\* ([a-zA-Z0-9_-]{11}) at p
IsId11At(s, p) == p >= 1 /\ p + 10 <= Len(s) /\ \A k \in 0 .. 10 : Char(s, p + k) \in IdChars

\* transcriptor.py:35  (?:watch\?v=|embed\/|v\/|shorts\/)?([a-zA-Z0-9_-]{11}) at q:
\* the id, or "" when it does not match there.
PathPrefixes == <<"watch?v=", "embed/", "v/", "shorts/">>
IdAfterPath(s, q) ==
    LET hits == {k \in 1 .. Len(PathPrefixes) :
                    LitAt(s, q, PathPrefixes[k]) /\ IsId11At(s, q + Len(PathPrefixes[k]))}
    IN  IF hits # {}
        THEN SubSeq(s, q + Len(PathPrefixes[Least(hits)]),
                       q + Len(PathPrefixes[Least(hits)]) + 10)
        ELSE IF IsId11At(s, q) THEN SubSeq(s, q, q + 10)
        ELSE ""

\* transcriptor.py:34  \S*?[^\w\s-] from r, then the id: the shortest run first.
LazyId(s, r) ==
    LET js == {j \in 0 .. Len(s) :
                  /\ \A k \in 0 .. j - 1 : Char(s, r + k) \notin Whitespace
                  /\ r + j <= Len(s)
                  /\ IsSeparator(Char(s, r + j))
                  /\ IdAfterPath(s, r + j + 1) # ""}
    IN  IF js = {} THEN "" ELSE IdAfterPath(s, r + Least(js) + 1)

\* transcriptor.py:34  (?:youtu\.be\/|youtube(?:-nocookie)?\.com\S*?[^\w\s-]) at p
HostId(s, p) ==
    IF LitAt(s, p, "youtu.be/") THEN IdAfterPath(s, p + 9)
    ELSE IF LitAt(s, p, "youtube-nocookie.com") THEN LazyId(s, p + 20)
    ELSE IF LitAt(s, p, "youtube.com") THEN LazyId(s, p + 11)
    ELSE ""

\* transcriptor.py:34  the optional groups (?:https?:)? (?:\/\/)? (?:[0-9A-Z-]+\.)?
\* each as the positions to go on from, the greedy choice first.
AfterScheme(s, p) ==
    IF LitAt(s, p, "https:") THEN <<p + 6, p>>
    ELSE IF LitAt(s, p, "http:") THEN <<p + 5, p>>
    ELSE <<p>>

AfterSlashes(s, p) == IF LitAt(s, p, "//") THEN <<p + 2, p>> ELSE <<p>>

AfterSubdomain(s, p) ==
    LET run == {n \in 1 .. Len(s) :
                   /\ p + n <= Len(s)
                   /\ \A k \in 0 .. n - 1 : Char(s, p + k) \in IdChars \ {"_"}
                   /\ Char(s, p + n) = "."}
    IN  IF run # {} THEN <<p + Least(run) + 1, p>> ELSE <<p>>

\* the positions where the host part may begin for a match that starts at st
HostPositions(s, st) ==
    LET a == AfterScheme(s, st)
        b == Flatten([i \in 1 .. Len(a) |-> AfterSlashes(s, a[i])])
    IN  Flatten([i \in 1 .. Len(b) |-> AfterSubdomain(s, b[i])])

\* group(1) of the first successful attempt that starts at st, or ""
MatchAt(s, st) ==
    LET ps == HostPositions(s, st)
        hits == {i \in 1 .. Len(ps) : HostId(s, ps[i]) # ""}
    IN  IF hits = {} THEN "" ELSE HostId(s, ps[Least(hits)])

\* transcriptor.py:29  re.match(r'^[a-zA-Z0-9_-]{11}$', s); $ also matches
\* before a newline that ends the string.
IsBareId(s) ==
    /\ IsId11At(s, 1)
    /\ Len(s) = 11 \/ (Len(s) = 12 /\ Char(s, 12) = "\n")

\* transcriptor.py:15-42  ok with the id, or not ok (ValueError).
extract_video_id(s) ==
    IF IsBareId(s) THEN [ok |-> TRUE, id |-> s]
    ELSE LET starts == {st \in 1 .. Len(s) : MatchAt(s, st) # ""}
         IN  IF starts = {} THEN [ok |-> FALSE, id |-> ""]
             ELSE [ok |-> TRUE, id |-> MatchAt(s, Least(starts))]

\* ------------------------------------------------------------- the glue
AgentEntries == {"agent_transcript", "agent_segments", "agent_search"}
CliEntries == {"cli_transcript", "cli_search"}
LibEntries == {"lib_transcript", "lib_segments", "lib_text"}

\* test_transcript.py:38  the CLI segments only for --segment > 0.
UsesSegments ==
    \/ entry \in {"lib_segments", "agent_segments"}
    \/ entry = "cli_transcript" /\ segment_length > 0

\* Variant of TranscriptCliHandler: the final "except Exception" is missing.
TranscriptCliHandlerNamedOnly(e) ==
    IF e \in {"ValueError", "TranscriptsDisabled", "NoTranscriptFound"} THEN e ELSE "none"

\* test_transcript.py:70-85  the except clause that catches e in main.
TranscriptCliHandler(e) ==
    IF e \in {"ValueError", "TranscriptsDisabled", "NoTranscriptFound"} THEN e ELSE "Exception"

\* agent.py:49, 87, 130 and test_search.py:102  "except Exception".
CatchAllHandler(e) == "Exception"

\* The except clause of the invoked operation that catches e; "none" when the
\* operation has no handler for it and e leaves the operation.
Handler(e) ==
    IF entry \in AgentEntries \/ entry = "cli_search" THEN CatchAllHandler(e)
    ELSE IF entry = "cli_transcript" THEN TranscriptCliHandler(e)
    ELSE "none"

\* An exception e is raised inside the invoked operation.
\* agent.py:49-53, 87-91, 130-134: an error record; test_transcript.py:70-85,
\* test_search.py:102-104: return 1; the library lets it through.
Raise(e) ==
    /\ failure' = e
    /\ pc' = "done"
    /\ IF Handler(e) = "none"
       THEN raised' = e /\ UNCHANGED <<response, exit_code>>
       ELSE IF entry \in AgentEntries
       THEN /\ response' = [status |-> "error", error_message |-> e]
            /\ UNCHANGED <<raised, exit_code>>
       ELSE /\ exit_code' = 1
            /\ UNCHANGED <<raised, response>>

Goto(label) == pc' = label /\ UNCHANGED outcome

\* One call to a backend (the caption library or the search API) and how it ended.
Call(op, result) == [op |-> op, result |-> result]

\* Variant of FallbackToTranslation: the translate flag is ignored.
FallbackAlways(flag) == TRUE

\* transcriptor.py:69-81  only with translate does a missing language fall
\* back to translating another track.
FallbackToTranslation(flag) == flag

\* agent.py:76-86  the record the segment tool returns.
SegmentsResponse(segs) ==
    [status |-> "success", total_segments |-> Len(segs),
     sample_segments |-> SubSeq(segs, 1, IF Len(segs) < 3 THEN Len(segs) ELSE 3)]

\* agent.py:38-39  text_content cut at 1000 characters (the suffix stands for
\* the code's Japanese "rest omitted" marker).
Truncate(t) == IF Len(t) > 1000 THEN SubSeq(t, 1, 1000) \o "...(continued)..." ELSE t

\* agent.py:31-48  the record the transcript tool returns.
TranscriptResponse(data) ==
    [status |-> "success", total_lines |-> Len(data),
     sample_lines |-> SubSeq(data, 1, IF Len(data) < 5 THEN Len(data) ELSE 5),
     text_content |-> Truncate(get_transcript_text(data, FALSE))]

\* The core returned data (cues or segments) to the invoked operation.
Deliver(data) ==
    /\ UNCHANGED <<failure, raised, exit_code>>
    /\ IF entry = "agent_segments"
       THEN /\ response' = SegmentsResponse(data)
            /\ pc' = "done"
            /\ UNCHANGED text_out
       ELSE IF entry = "agent_transcript"
       THEN /\ response' = TranscriptResponse(data)
            /\ text_out' = TranscriptResponse(data).text_content
            /\ pc' = "done"
       ELSE IF entry = "cli_transcript"
       THEN /\ pc' = IF output THEN "save" ELSE "print"
            /\ UNCHANGED <<response, text_out>>
       ELSE /\ pc' = "done"
            /\ UNCHANGED <<response, text_out>>

\* agent.py:25, 70 and test_transcript.py:28-35  the glue extracts the id
\* before calling the library; the CLI first turns timestamps on for --segment > 0.
GlueExtract ==
    /\ pc = "extract"
    /\ include_timestamps' =
         IF entry = "cli_transcript" /\ segment_length > 0 THEN TRUE ELSE include_timestamps
    /\ IF extract_video_id(url).ok
       THEN /\ video_id' = extract_video_id(url).id
            /\ Goto("gt_extract")
       ELSE /\ Raise("ValueError")
            /\ UNCHANGED video_id
    /\ UNCHANGED <<args, calls, transcript, scan, text_out, files, search>>

\* transcriptor.py:63  get_transcript extracts the id itself.
GetTranscriptExtract ==
    /\ pc = "gt_extract"
    /\ IF extract_video_id(url).ok
       THEN Goto("list")
       ELSE Raise("ValueError")
    /\ UNCHANGED <<args, calls, video_id, transcript, scan, include_timestamps,
                   text_out, files, search>>

\* transcriptor.py:67, 88-89  list_transcripts; TranscriptsDisabled is re-raised
\* as TranscriptsDisabled, any other failure of the backend passes through.
ListTranscripts ==
    /\ pc = "list"
    /\ \E o \in {"ok", "TranscriptsDisabled", "UpstreamError"} :
         /\ calls' = Append(calls, Call("list_transcripts", o))
         /\ IF o = "ok" THEN Goto("find") ELSE Raise(o)
    /\ UNCHANGED <<args, video_id, transcript, scan, include_timestamps,
                   text_out, files, search>>

\* transcriptor.py:69-74, 83, 90-92  find_transcript([language]); with translate
\* the inner handler catches NoTranscriptFound, without it the outer one re-raises.
FindTranscript ==
    /\ pc = "find"
    /\ \E o \in {"ok", "NoTranscriptFound"} :
         /\ calls' = Append(calls, Call("find_transcript", o))
         /\ IF o = "ok" THEN Goto("fetch")
            ELSE IF FallbackToTranslation(translate) THEN Goto("pick")
            ELSE Raise("NoTranscriptFound")
    /\ UNCHANGED <<args, video_id, transcript, scan, include_timestamps,
                   text_out, files, search>>

\* transcriptor.py:86 and 143-146  get_transcript returns the cues; the builder
\* sets up its result list and the initial segment, any other caller gets the cues.
ReturnTranscript(cues) ==
    /\ transcript' = cues
    /\ IF UsesSegments
       THEN /\ segments' = <<>>
            /\ current_segment' = InitialSegment(segment_length)
            /\ idx' = 1
            /\ Goto("scan")
            /\ UNCHANGED text_out
       ELSE /\ Deliver(cues)
            /\ UNCHANGED <<segments, current_segment, idx>>
    /\ UNCHANGED <<emitted, folded>>

\* transcriptor.py:73, 84  fetch() of the exact-language track.
FetchTranscript(source) ==
    /\ pc = "fetch"
    /\ \/ /\ calls' = Append(calls, Call("fetch", "ok"))
          /\ \E cues \in source : ReturnTranscript(cues)
       \/ /\ calls' = Append(calls, Call("fetch", "UpstreamError"))
          /\ Raise("UpstreamError")
          /\ UNCHANGED <<transcript, scan, text_out>>
    /\ UNCHANGED <<args, video_id, include_timestamps, files, search>>

\* transcriptor.py:77  next(iter(transcript_list)): the first available track.
PickTrack ==
    /\ pc = "pick"
    /\ \E o \in {"ok", "StopIteration"} :
         /\ calls' = Append(calls, Call("first_track", o))
         /\ IF o = "ok" THEN Goto("translate") ELSE Raise(o)
    /\ UNCHANGED <<args, video_id, transcript, scan, include_timestamps,
                   text_out, files, search>>

\* transcriptor.py:79  available_transcript.translate(language).
TranslateTrack ==
    /\ pc = "translate"
    /\ \E o \in {"ok", "NotTranslatable"} :
         /\ calls' = Append(calls, Call("translate", o))
         /\ IF o = "ok" THEN Goto("tfetch") ELSE Raise(o)
    /\ UNCHANGED <<args, video_id, transcript, scan, include_timestamps,
                   text_out, files, search>>

\* transcriptor.py:80  translated_transcript.fetch().
FetchTranslated(source) ==
    /\ pc = "tfetch"
    /\ \/ /\ calls' = Append(calls, Call("fetch_translated", "ok"))
          /\ \E cues \in source : ReturnTranscript(cues)
       \/ /\ calls' = Append(calls, Call("fetch_translated", "UpstreamError"))
          /\ Raise("UpstreamError")
          /\ UNCHANGED <<transcript, scan, text_out>>
    /\ UNCHANGED <<args, video_id, include_timestamps, files, search>>

\* transcriptor.py:148-154  a cue that starts before the open segment's end.
ScanFold ==
    /\ pc = "scan"
    /\ idx <= Len(transcript)
    /\ InOpenSegment(transcript[idx], current_segment)
    /\ current_segment' = FoldText(current_segment, transcript[idx])
    /\ folded' = Append(folded, idx)
    /\ idx' = idx + 1
    /\ UNCHANGED <<args, pc, calls, video_id, transcript, segments, emitted, outcome,
                   include_timestamps, text_out, files, search>>

\* transcriptor.py:155-166  a cue at or after the open segment's end.  With
\* segment_length = 0 line 161 divides by zero after line 158 has appended.
ScanOpen ==
    /\ pc = "scan"
    /\ idx <= Len(transcript)
    /\ ~InOpenSegment(transcript[idx], current_segment)
    /\ segments' = Emit(segments, current_segment)
    /\ emitted' = IF ShouldEmit(current_segment) THEN Append(emitted, folded) ELSE emitted
    /\ IF segment_length = 0
       THEN /\ Raise("ZeroDivisionError")
            /\ UNCHANGED <<current_segment, folded, idx>>
       ELSE /\ current_segment' = NewSegment(transcript[idx], segment_length)
            /\ folded' = <<idx>>
            /\ idx' = idx + 1
            /\ UNCHANGED <<pc, outcome>>
    /\ UNCHANGED <<args, calls, video_id, transcript, include_timestamps,
                   text_out, files, search>>

\* transcriptor.py:168-172  the last pending segment, and the return.
ScanFinish ==
    /\ pc = "scan"
    /\ idx > Len(transcript)
    /\ segments' = Emit(segments, current_segment)
    /\ emitted' = IF ShouldEmit(current_segment) THEN Append(emitted, folded) ELSE emitted
    /\ Deliver(segments')
    /\ UNCHANGED <<args, calls, video_id, transcript, idx, current_segment, folded,
                   include_timestamps, files, search>>

\* transcriptor.py:107-127  get_transcript_text called on its own.
Render ==
    /\ pc = "render"
    /\ text_out' = get_transcript_text(transcript, include_timestamps)
    /\ Goto("done")
    /\ UNCHANGED <<args, calls, video_id, transcript, scan, include_timestamps,
                   files, search>>

\* test_transcript.py:51-54 and transcriptor.py:103-104  the JSON file.
CliSave ==
    /\ pc = "save"
    /\ \/ /\ files' = files \cup {"json"}
          /\ Goto("write_text")
       \/ /\ Raise("OSError")
          /\ UNCHANGED files
    /\ UNCHANGED <<args, calls, video_id, transcript, scan, include_timestamps,
                   text_out, search>>

\* The list the CLI renders: the segments or the cues (test_transcript.py:38-48).
TranscriptData == IF UsesSegments THEN segments ELSE transcript

\* test_transcript.py:57-62, 87  the text file next to it.
CliWriteText ==
    /\ pc = "write_text"
    /\ \/ /\ files' = files \cup {"txt"}
          /\ text_out' = get_transcript_text(TranscriptData, include_timestamps)
          /\ exit_code' = 0
          /\ pc' = "done"
          /\ UNCHANGED <<failure, raised, response>>
       \/ /\ Raise("OSError")
          /\ UNCHANGED <<files, text_out>>
    /\ UNCHANGED <<args, calls, video_id, transcript, scan, include_timestamps, search>>

\* test_transcript.py:63-68, 87  the text on standard output.
CliPrint ==
    /\ pc = "print"
    /\ text_out' = get_transcript_text(TranscriptData, include_timestamps)
    /\ exit_code' = 0
    /\ pc' = "done"
    /\ UNCHANGED <<failure, raised, response>>
    /\ UNCHANGED <<args, calls, video_id, transcript, scan, include_timestamps,
                   files, search>>

\* ---- search
\* searcher.py:22-32, agent.py:111, test_search.py:41-47  the API key and the
\* client: the CLI returns 1 without a key, the constructor raises ValueError.
SearchSetup ==
    /\ pc = "s_setup"
    /\ IF ~api_key
       THEN IF entry = "cli_search"
            THEN /\ exit_code' = 1
                 /\ pc' = "done"
                 /\ UNCHANGED <<failure, raised, response>>
            ELSE Raise("ValueError")
       ELSE \/ Goto("s_request")
            \/ Raise("BuildError")
    /\ UNCHANGED <<args, calls, video_id, transcript, scan, include_timestamps,
                   text_out, files, search>>

\* searcher.py:93-101 and 174-182  an item of the response: a video with every
\* field the loop reads, or one that lacks item['id']['videoId'] (a channel or
\* playlist hit) or item['snippet']['thumbnails']['high'].
ItemKinds == {"video", "no_video_id", "no_thumbnail"}
SearchResponses == SeqsUpTo(ItemKinds, MaxVideos)

\* searcher.py:55-82, 111-115 and 137-163, 192-196  one request; an HttpError
\* is wrapped in a plain Exception, any other failure passes through.
SearchRequest ==
    /\ pc = "s_request"
    /\ \E o \in {"ok", "HttpError", "TransportError"} :
         /\ calls' = Append(calls, Call(IF next_page THEN "get_next_page"
                                                      ELSE "search_videos", o))
         /\ IF o = "ok"
            THEN /\ \E its \in SearchResponses, token \in BOOLEAN :
                      /\ api_items' = its
                      /\ next_page_token' = token
                 /\ Goto("s_parse")
            ELSE /\ UNCHANGED <<api_items, next_page_token>>
                 /\ IF o = "HttpError" THEN Raise("Exception") ELSE Raise(o)
    /\ UNCHANGED <<args, video_id, transcript, scan, include_timestamps,
                   text_out, files, videos>>

\* agent.py:121-129  the record the search tool returns.
SearchResponse(n, token) ==
    [status |-> "success", total_results |-> n,
     sample_videos |-> IF n > 5 THEN 5 ELSE n, has_more |-> token]

\* searcher.py:93-101  the items whose fields the loop cannot read (KeyError).
Unreadable(its) == {i \in 1 .. Len(its) : its[i] # "video"}

\* searcher.py:84-110 and 165-190  the video records built from the response,
\* up to the first item that cannot be read; test_search.py:83-100 prints the
\* records and returns 0.
SearchParse ==
    /\ pc = "s_parse"
    /\ IF Unreadable(api_items) = {}
       THEN /\ videos' = Len(api_items)
            /\ pc' = "done"
            /\ UNCHANGED <<failure, raised>>
            /\ IF entry = "agent_search"
               THEN /\ response' = SearchResponse(Len(api_items), next_page_token)
                    /\ UNCHANGED exit_code
               ELSE IF entry = "cli_search"
               THEN exit_code' = 0 /\ UNCHANGED response
               ELSE UNCHANGED <<response, exit_code>>
       ELSE /\ videos' = Least(Unreadable(api_items)) - 1
            /\ Raise("KeyError")
    /\ UNCHANGED <<args, calls, video_id, transcript, scan, include_timestamps,
                   text_out, files, api_items, next_page_token>>

\* ------------------------------------------------------- specifications
\* State before the invoked operation has run.
Fresh ==
    /\ calls = <<>>
    /\ video_id = ""
    /\ transcript = <<>>
    /\ idx = 0
    /\ segments = <<>>
    /\ current_segment = NoSegment
    /\ emitted = <<>>
    /\ folded = <<>>
    /\ failure = "none"
    /\ raised = "none"
    /\ response = NoResponse
    /\ exit_code = -1
    /\ text_out = ""
    /\ files = {}
    /\ videos = 0
    /\ api_items = <<>>
    /\ next_page_token = FALSE

\* The segment builder, called from the library and from the agent tool.
Init ==
    /\ entry \in {"lib_segments", "agent_segments"}
    /\ url \in Urls
    /\ translate = FALSE
    /\ segment_length \in Lengths
    /\ include_timestamps = FALSE
    /\ output = FALSE
    /\ api_key = FALSE
    /\ next_page = FALSE
    /\ pc = IF entry \in AgentEntries THEN "extract" ELSE "gt_extract"
    /\ Fresh

Next ==
    \/ GlueExtract
    \/ GetTranscriptExtract
    \/ ListTranscripts
    \/ FindTranscript
    \/ FetchTranscript(Transcripts)
    \/ ScanFold
    \/ ScanOpen
    \/ ScanFinish

Spec == Init /\ [][Next]_vars

\* get_transcript_text on its own.
InitRender ==
    /\ entry = "lib_text"
    /\ url = ""
    /\ translate = FALSE
    /\ segment_length = DefaultSegmentLength
    /\ include_timestamps \in BOOLEAN
    /\ output = FALSE
    /\ api_key = FALSE
    /\ next_page = FALSE
    /\ pc = "render"
    /\ calls = <<>>
    /\ video_id = ""
    /\ transcript \in RenderInputs
    /\ idx = 0
    /\ segments = <<>>
    /\ current_segment = NoSegment
    /\ emitted = <<>>
    /\ folded = <<>>
    /\ failure = "none"
    /\ raised = "none"
    /\ response = NoResponse
    /\ exit_code = -1
    /\ text_out = ""
    /\ files = {}
    /\ videos = 0
    /\ api_items = <<>>
    /\ next_page_token = FALSE

NextRender == Render

SpecRender == InitRender /\ [][NextRender]_vars

\* get_transcript, called from the library.
InitFetch ==
    /\ entry = "lib_transcript"
    /\ url \in Urls
    /\ translate \in BOOLEAN
    /\ segment_length = DefaultSegmentLength
    /\ include_timestamps = FALSE
    /\ output = FALSE
    /\ api_key = FALSE
    /\ next_page = FALSE
    /\ pc = "gt_extract"
    /\ Fresh

NextFetch ==
    \/ GetTranscriptExtract
    \/ ListTranscripts
    \/ FindTranscript
    \/ FetchTranscript(Transcripts)
    \/ PickTrack
    \/ TranslateTrack
    \/ FetchTranslated(Transcripts)

SpecFetch == InitFetch /\ [][NextFetch]_vars

\* The agent tools and the two command-line mains.
InitGlue ==
    /\ entry \in AgentEntries \cup CliEntries
    /\ url \in (IF entry \in {"agent_search", "cli_search"} THEN {""} ELSE Urls)
    /\ translate \in (IF entry \in {"agent_search", "cli_search"} THEN {FALSE} ELSE BOOLEAN)
    /\ segment_length \in
         (IF entry \in {"agent_segments", "cli_transcript"} THEN Lengths
          ELSE {DefaultSegmentLength})
    /\ include_timestamps \in (IF entry = "cli_transcript" THEN BOOLEAN ELSE {FALSE})
    /\ output \in (IF entry = "cli_transcript" THEN BOOLEAN ELSE {FALSE})
    /\ api_key \in (IF entry \in {"agent_search", "cli_search"} THEN BOOLEAN ELSE {FALSE})
    /\ next_page \in (IF entry = "cli_search" THEN BOOLEAN ELSE {FALSE})
    /\ pc = IF entry \in {"agent_search", "cli_search"} THEN "s_setup" ELSE "extract"
    /\ Fresh

NextGlue ==
    \/ GlueExtract
    \/ GetTranscriptExtract
    \/ ListTranscripts
    \/ FindTranscript
    \/ FetchTranscript(GlueTranscripts)
    \/ PickTrack
    \/ TranslateTrack
    \/ FetchTranslated(GlueTranscripts)
    \/ ScanFold
    \/ ScanOpen
    \/ ScanFinish
    \/ CliSave
    \/ CliWriteText
    \/ CliPrint
    \/ SearchSetup
    \/ SearchRequest
    \/ SearchParse

SpecGlue == InitGlue /\ [][NextGlue]_vars

\* ---- extract_video_id on its own
SampleIds == {"dQw4w9WgXcQ", "a-b_c0d1E2F"}
UrlPrefixes == {"", "https://", "http://www.", "https://m.", "//www."}
UrlShapes == {"youtu.be/", "youtube.com/watch?v=", "youtube.com/embed/",
              "youtube.com/v/", "youtube.com/shorts/"}
UrlSuffixes == {"", "&t=42s", "?feature=share"}

\* URLs of the documented shapes, each with the id it carries.
ShapedUrls ==
    {[text |-> p \o sh \o id \o suf, id |-> id] :
        p \in UrlPrefixes, sh \in UrlShapes, id \in SampleIds, suf \in UrlSuffixes}
    \cup {[text |-> "HTTPS://YOUTU.BE/dQw4w9WgXcQ", id |-> "dQw4w9WgXcQ"],
          [text |-> "https://www.youtube-nocookie.com/embed/dQw4w9WgXcQ",
           id |-> "dQw4w9WgXcQ"]}

\* Strings that are neither an 11-character id nor a URL of a documented shape.
UnshapedInputs ==
    {"not a url", "", "dQw4w9WgXc", "dQw4w9WgXcQQ", "dQw4w9WgXc!", "dQw4w9WgXcQ\n",
     "https://example.com/watch?v=dQw4w9WgXcQ", "https://vimeo.com/12345678901",
     "https://www.youtube.com/watch?v=short", "https://youtu.be/",
     "https://www.youtube.com/playlist?list=PLdQw4w9WgXcQ",
     "https://www.youtube.com/channel/UCdQw4w9WgXcQ"}

ExtractInputs == SampleIds \cup {u.text : u \in ShapedUrls} \cup UnshapedInputs

\* transcriptor.py:15-42  extract_video_id called by a client.
ExtractVideoId ==
    /\ pc = "x_extract"
    /\ IF extract_video_id(url).ok
       THEN /\ video_id' = extract_video_id(url).id
            /\ calls' = Append(calls, Call("extract_video_id", extract_video_id(url).id))
            /\ Goto("x_again")
       ELSE /\ Raise("ValueError")
            /\ UNCHANGED <<video_id, calls>>
    /\ UNCHANGED <<args, transcript, scan, include_timestamps, text_out, files, search>>

\* transcriptor.py:15-42  the client hands the result to extract_video_id again.
ExtractAgain ==
    /\ pc = "x_again"
    /\ IF extract_video_id(video_id).ok
       THEN /\ calls' = Append(calls, Call("extract_video_id", extract_video_id(video_id).id))
            /\ pc' = "done"
            /\ UNCHANGED outcome
       ELSE /\ Raise("ValueError")
            /\ UNCHANGED calls
    /\ UNCHANGED <<args, video_id, transcript, scan, include_timestamps, text_out,
                   files, search>>

InitExtract ==
    /\ entry = "lib_extract"
    /\ url \in ExtractInputs
    /\ translate = FALSE
    /\ segment_length = DefaultSegmentLength
    /\ include_timestamps = FALSE
    /\ output = FALSE
    /\ api_key = FALSE
    /\ next_page = FALSE
    /\ pc = "x_extract"
    /\ Fresh

NextExtract ==
    \/ ExtractVideoId
    \/ ExtractAgain

SpecExtract == InitExtract /\ [][NextExtract]_vars

\* search_videos and get_next_page, called from the library.
InitSearch ==
    /\ entry = "lib_search"
    /\ url = ""
    /\ translate = FALSE
    /\ segment_length = DefaultSegmentLength
    /\ include_timestamps = FALSE
    /\ output = FALSE
    /\ api_key \in BOOLEAN
    /\ next_page \in BOOLEAN
    /\ pc = "s_setup"
    /\ Fresh

NextSearch ==
    \/ SearchSetup
    \/ SearchRequest
    \/ SearchParse

SpecSearch == InitSearch /\ [][NextSearch]_vars

\* The segment builder on cues of short and long duration: a long cue lasts
\* longer than any segment.
CueDurations == {1, Ticks(MaxLen) + 1}
TimedCues == [text : {"a"}, start : 0 .. MaxStart, duration : CueDurations]
TimedTranscripts == SeqsUpTo(TimedCues, MaxCues)

InitTimed ==
    /\ entry = "lib_segments"
    /\ url = "dQw4w9WgXcQ"
    /\ translate = FALSE
    /\ segment_length \in 1 .. MaxLen
    /\ include_timestamps = FALSE
    /\ output = FALSE
    /\ api_key = FALSE
    /\ next_page = FALSE
    /\ pc = "fetch"
    /\ Fresh

NextTimed ==
    \/ FetchTranscript(TimedTranscripts)
    \/ ScanFold
    \/ ScanOpen
    \/ ScanFinish

SpecTimed == InitTimed /\ [][NextTimed]_vars

\* ---------------------------------------------------------------- claims
\* The builder has been entered (get_transcript returned its cues).
BuilderEntered == idx >= 1

\* The invoked operation ended without raising.
Returned == pc = "done" /\ failure = "none"

SortedStarts(t) == \A i \in 1 .. Len(t) - 1 : t[i].start <= t[i + 1].start
NonNegativeStarts(t) == \A i \in 1 .. Len(t) : t[i].start >= 0

\* " " + text for each cue index of ix, in order.
RECURSIVE SpacedTexts(_, _)
SpacedTexts(t, ix) ==
    IF Len(ix) = 0 THEN "" ELSE " " \o t[Head(ix)].text \o SpacedTexts(t, Tail(ix))

\* C1: whenever the builder runs with segment_length <= 0 the call ends in a
\* ValueError (the code's InvalidArgument): raised to the library caller,
\* reported as an error record by the agent tool; no segment list is returned.
C1_NonPositiveLengthRejected ==
    (pc = "done" /\ BuilderEntered /\ segment_length <= 0)
        => /\ failure = "ValueError"
           /\ entry = "lib_segments" => raised = "ValueError"
           /\ entry = "agent_segments" => response.status = "error"

\* C2 as stated: for segment_length > 0 the text of every emitted segment is
\* " " + text for each cue folded into it, the first one included, and cues
\* a@0, b@3, c@12 with segment_length 5 give (0,5," a b"), (10,15," c").
C2_LeadingSpaceEverySegment ==
    segment_length > 0 =>
        /\ \A k \in 1 .. Len(segments) :
              segments[k].text = SpacedTexts(transcript, emitted[k])
        /\ (Returned /\ transcript = ScenarioA /\ segment_length = 5) =>
              segments = << [start |-> Ticks(0), text |-> " a b", end |-> Ticks(5)],
                            [start |-> Ticks(10), text |-> " c", end |-> Ticks(15)] >>

\* C2 amended: for segment_length > 0 the segment that starts at 0 (the initial
\* one) has " " + text for each of its cues; every other emitted segment has
\* the text of the cue that opened it with no leading space, then " " + text
\* for each further cue; a@0, b@3, c@12 with segment_length 5 give
\* (0,5," a b"), (10,15,"c").
C2_LeadingSpaceInitialSegmentOnly ==
    segment_length > 0 =>
        /\ \A k \in 1 .. Len(segments) :
              /\ Len(emitted[k]) >= 1
              /\ segments[k].text =
                   IF segments[k].start = 0
                   THEN SpacedTexts(transcript, emitted[k])
                   ELSE transcript[Head(emitted[k])].text
                          \o SpacedTexts(transcript, Tail(emitted[k]))
        /\ (Returned /\ transcript = ScenarioA /\ segment_length = 5) =>
              segments = << [start |-> Ticks(0), text |-> " a b", end |-> Ticks(5)],
                            [start |-> Ticks(10), text |-> "c", end |-> Ticks(15)] >>

C2_Witness ==
    /\ Returned
    /\ transcript = ScenarioA
    /\ segment_length = 5
    /\ Len(segments) = 2
    /\ segments[1].text = " a b"
    /\ segments[2].text = "c"

\* C3: for non-decreasing starts and segment_length > 0, when the builder
\* returns, the cues of the emitted segments read in output order are exactly
\* the input cues 1..n in order (each cue in exactly one emitted segment).
C3_EveryCueInOneSegment ==
    (Returned /\ BuilderEntered /\ segment_length > 0 /\ SortedStarts(transcript))
        => Flatten(emitted) = [i \in 1 .. Len(transcript) |-> i]

\* C4: for non-decreasing, non-negative starts and segment_length > 0 the
\* starts of the emitted segments are strictly increasing in output order.
C4_StartsStrictlyIncreasing ==
    (segment_length > 0 /\ SortedStarts(transcript) /\ NonNegativeStarts(transcript))
        => \A k \in 1 .. Len(segments) - 1 : segments[k].start < segments[k + 1].start

C4_Witness ==
    /\ Returned
    /\ segment_length > 0
    /\ SortedStarts(transcript)
    /\ NonNegativeStarts(transcript)
    /\ Len(transcript) = 3
    /\ Len(segments) = 3
    /\ segments[1].start = 0

\* C5: for segment_length > 0 no segment in the result list has empty text, at
\* any step; and when the builder returns, the last pending segment is the
\* last element of the result if its text is non-empty and is absent if not.
C5_NoEmptySegment ==
    segment_length > 0 =>
        /\ \A k \in 1 .. Len(segments) : segments[k].text # ""
        /\ (Returned /\ BuilderEntered) =>
              IF current_segment.text # ""
              THEN /\ Len(segments) >= 1
                   /\ segments[Len(segments)] = current_segment
              ELSE \A k \in 1 .. Len(segments) : segments[k] # current_segment

\* a result in which the bucket between two cues was skipped
C5_Witness ==
    /\ Returned
    /\ segment_length > 0
    /\ Len(transcript) = 2
    /\ Len(segments) = 2
    /\ segments[2].start > segments[1].end
    /\ segments[2] = current_segment

\* C6: for segment_length > 0 the open segment and every emitted segment have
\* end = start + segment_length, at every step of the scan and in the result.
C6_FixedWidth ==
    (segment_length > 0 /\ BuilderEntered) =>
        /\ current_segment.end = current_segment.start + Ticks(segment_length)
        /\ \A k \in 1 .. Len(segments) :
              segments[k].end = segments[k].start + Ticks(segment_length)

C6_Witness ==
    /\ pc = "scan"
    /\ segment_length > 0
    /\ Len(segments) >= 1
    /\ current_segment.start > segments[Len(segments)].start
    /\ current_segment.start > transcript[idx - 1].start - Ticks(segment_length)
    /\ current_segment.start < transcript[idx - 1].start

\* C7: for segment_length L > 0, a cue whose start is at or after the open
\* segment's end opens a segment whose start is the multiple of L with
\* start <= cue.start < start + L.
C7_GridAlignment ==
    [][ (/\ pc = "scan"
         /\ segment_length > 0
         /\ idx <= Len(transcript)
         /\ transcript[idx].start >= current_segment.end
         /\ idx' = idx + 1)
        => (/\ current_segment'.start % Ticks(segment_length) = 0
            /\ current_segment'.start <= transcript[idx].start
            /\ transcript[idx].start < current_segment'.start + Ticks(segment_length)) ]_vars

\* a gap: the new segment starts more than one bucket after the previous end
C7_Witness ==
    /\ pc = "scan"
    /\ segment_length > 0
    /\ Len(segments) >= 1
    /\ folded = <<idx - 1>>
    /\ current_segment.start >= segments[Len(segments)].end + Ticks(segment_length)

\* Offset of part i in a string made of parts separated by one character.
RECURSIVE OffsetOf(_, _)
OffsetOf(parts, i) ==
    IF i = 1 THEN 0 ELSE OffsetOf(parts, i - 1) + Len(parts[i - 1]) + 1

\* out is the parts in order with exactly the character sep between neighbours.
JoinedBy(out, parts, sep) ==
    IF Len(parts) = 0 THEN out = ""
    ELSE /\ Len(out) = OffsetOf(parts, Len(parts)) + Len(parts[Len(parts)])
         /\ \A i \in 1 .. Len(parts) :
               SubSeq(out, OffsetOf(parts, i) + 1, OffsetOf(parts, i) + Len(parts[i]))
                   = parts[i]
         /\ \A i \in 1 .. Len(parts) - 1 :
               Char(out, OffsetOf(parts, i) + Len(parts[i]) + 1) = sep

TwoDigits(n) == ToString(n \div 10) \o ToString(n % 10)

\* "[HH:MM:SS] text" for the whole seconds of start, modulo 24 hours.
ExpectedLine(item) ==
    LET whole == item.start \div TicksPerSecond
        clock == whole % (24 * 3600)
    IN  "[" \o TwoDigits(clock \div 3600) \o ":" \o TwoDigits((clock \div 60) % 60)
            \o ":" \o TwoDigits(clock % 60) \o "] " \o item.text

\* C8: get_transcript_text returns, without timestamps, the texts separated by
\* exactly one space; with timestamps, the lines "[HH:MM:SS] text" separated by
\* a newline, HH:MM:SS being the zero-padded whole seconds of start modulo 24
\* hours; start 65 with text "hello" gives "[00:01:05] hello"; an empty
\* sequence gives "".
C8_RendererFormat ==
    pc = "done" =>
        /\ include_timestamps =>
              JoinedBy(text_out, [i \in 1 .. Len(transcript) |-> ExpectedLine(transcript[i])],
                       "\n")
        /\ ~include_timestamps =>
              JoinedBy(text_out, [i \in 1 .. Len(transcript) |-> transcript[i].text], " ")
        /\ transcript = <<>> => text_out = ""
        /\ (/\ include_timestamps
            /\ Len(transcript) = 1
            /\ transcript[1].text = "hello"
            /\ transcript[1].start \div TicksPerSecond = 65) => text_out = "[00:01:05] hello"

\* a cue one day and 65.5 s in, then a segment one second before the epoch
C8_Witness ==
    /\ pc = "done"
    /\ include_timestamps
    /\ Len(transcript) = 2
    /\ transcript[1].start = Ticks(DaySeconds + 65) + 1
    /\ transcript[2].start = Ticks(-1)
    /\ "end" \in DOMAIN transcript[2]
    /\ text_out = "[00:01:05] hello\n[23:59:59] hello"

HasCall(op, result) == \E i \in 1 .. Len(calls) : calls[i] = Call(op, result)

TranslationOps == {"first_track", "translate", "fetch_translated"}

\* C9: get_transcript (a) fails with TranscriptsDisabled after the single
\* list_transcripts call when captions are disabled, whatever translate is;
\* (b) fails with NoTranscriptFound, without any translation call, when the
\* language is missing and translate is false; (c) touches another track or
\* requests a translation only with translate true and after find_transcript
\* has failed with NoTranscriptFound; and looks the language up at most once.
C9_CaptionFetchOutcomes ==
    /\ (pc = "done" /\ HasCall("list_transcripts", "TranscriptsDisabled")) =>
          /\ raised = "TranscriptsDisabled"
          /\ Len(calls) = 1
    /\ (pc = "done" /\ ~translate /\ HasCall("find_transcript", "NoTranscriptFound")) =>
          /\ raised = "NoTranscriptFound"
          /\ \A i \in 1 .. Len(calls) : calls[i].op \notin TranslationOps
    /\ \A i \in 1 .. Len(calls) :
          calls[i].op \in TranslationOps =>
              /\ translate
              /\ \E j \in 1 .. i - 1 : calls[j] = Call("find_transcript", "NoTranscriptFound")
    /\ Cardinality({i \in 1 .. Len(calls) : calls[i].op = "find_transcript"}) <= 1

C9_Witness ==
    /\ Returned
    /\ translate
    /\ Len(transcript) > 0
    /\ calls = << Call("list_transcripts", "ok"), Call("find_transcript", "NoTranscriptFound"),
                  Call("first_track", "ok"), Call("translate", "ok"),
                  Call("fetch_translated", "ok") >>

\* C10: no exception leaves an agent tool or a command-line main.  A main
\* returns 1 when a step failed and 0 only when none did (with -o, only after
\* both files were written); a tool returns an error record with a message when
\* a step failed and a success record only when none did.
C10_NoFailureEscapes ==
    /\ raised = "none"
    /\ pc # "done" => exit_code = -1 /\ response = NoResponse
    /\ (pc = "done" /\ entry \in CliEntries) =>
          /\ response = NoResponse
          /\ exit_code \in {0, 1}
          /\ failure # "none" => exit_code = 1
          /\ exit_code = 0 =>
                /\ failure = "none"
                /\ \A i \in 1 .. Len(calls) :
                      calls[i].result = "ok" \/ calls[i] = Call("find_transcript", "NoTranscriptFound")
                /\ output => files = {"json", "txt"}
    /\ (pc = "done" /\ entry \in AgentEntries) =>
          /\ exit_code = -1
          /\ response.status \in {"success", "error"}
          /\ failure # "none" <=> response.status = "error"
          /\ response.status = "error" => response.error_message = failure

\* the text file could not be written after the JSON file had been
C10_Witness ==
    /\ pc = "done"
    /\ entry = "cli_transcript"
    /\ failure = "OSError"
    /\ files = {"json"}
    /\ exit_code = 1
    /\ raised = "none"

\* ---- C11
\* s is an identifier: exactly 11 characters of letters, digits, '-' and '_'.
IsIdentifier(s) == Len(s) = 11 /\ \A k \in 1 .. 11 : Char(s, k) \in IdChars

\* The first call of extract_video_id is over.
Extracted == entry = "lib_extract" /\ pc \in {"x_again", "done"}
ExtractSucceeded == Extracted /\ Len(calls) >= 1

\* C11: extract_video_id returns an 11-character identifier unchanged, returns
\* the <id> of a URL of a documented shape, fails with ValueError
\* (InvalidArgument) on any other input; so every successful result is an
\* 11-character identifier, and extracting from a result returns that result.
C11_ExtractVideoId ==
    Extracted =>
        /\ IsIdentifier(url) => ExtractSucceeded /\ video_id = url
        /\ \A u \in ShapedUrls : url = u.text => ExtractSucceeded /\ video_id = u.id
        /\ url \in UnshapedInputs => failure = "ValueError"
        /\ ExtractSucceeded => IsIdentifier(video_id)
        /\ (ExtractSucceeded /\ pc = "done") =>
              /\ failure = "none"
              /\ Len(calls) = 2
              /\ calls[2].result = calls[1].result

\* ---- C12
\* search_videos or get_next_page has been called and is over.
SearchOver == entry = "lib_search" /\ pc = "done" /\ Len(calls) >= 1

\* C12: every failure of the search backend during search_videos or
\* get_next_page, an HTTP error or any other failure of the request or of
\* reading the response, reaches the caller as the one wrapped kind (the plain
\* Exception of searcher.py:115); one request is issued, never more, and a
\* failed call raises instead of returning a result.
C12_SearchFailuresWrapped ==
    SearchOver =>
        /\ Len(calls) = 1
        /\ failure # "none" => failure = "Exception" /\ raised = "Exception"

\* ---- C13
\* The cue sequences that differ from t in duration values only.
DurationVariants(t) ==
    {[i \in 1 .. Len(t) |-> [t[i] EXCEPT !.duration = ds[i]]] :
        ds \in [1 .. Len(t) -> CueDurations]}

\* Cue i ends after the end of segment seg.
EndsPast(i, seg) == transcript[i].start + transcript[i].duration > seg.end

\* C13: for segment_length > 0 the returned segments are the same for every
\* cue sequence that differs from the input in durations only, and no cue is
\* in two emitted segments; a cue that starts before the open segment's end
\* is folded into it whatever its duration, and the fold emits nothing and
\* leaves the segment's window as it was.
C13_DurationIndependence ==
    /\ [](Returned /\ BuilderEntered /\ segment_length > 0 =>
            /\ \A t2 \in DurationVariants(transcript) :
                   get_transcript_by_segments(t2, segment_length) = segments
            /\ \A i \in 1 .. Len(transcript) :
                   Cardinality({k \in 1 .. Len(emitted) :
                                   \E j \in 1 .. Len(emitted[k]) : emitted[k][j] = i}) <= 1)
    /\ [][(/\ pc = "scan"
           /\ segment_length > 0
           /\ idx <= Len(transcript)
           /\ transcript[idx].start < current_segment.end)
          => /\ folded' = Append(folded, idx)
             /\ current_segment' = [current_segment EXCEPT
                                       !.text = @ \o " " \o transcript[idx].text]
             /\ segments' = segments]_vars

\* A returned result of two segments whose first holds a folded cue that ends
\* after that segment's end, and even after the start of the second segment.
C13_Witness ==
    /\ Returned
    /\ segment_length > 0
    /\ Len(segments) = 2
    /\ Len(emitted[1]) = 2
    /\ EndsPast(emitted[1][2], segments[1])
    /\ transcript[emitted[1][2]].start + transcript[emitted[1][2]].duration
         > segments[2].start
    /\ transcript[emitted[1][1]].duration = 1

\* ---- C14
\* Cue i starts inside the window of segment seg.
StartsInside(i, seg) == seg.start <= transcript[i].start /\ transcript[i].start < seg.end

\* C14: for cues with non-decreasing, non-negative starts and segment_length > 0,
\* every cue of every emitted segment, the initial segment included, and every
\* cue folded so far into the open segment starts inside that segment's
\* window: segment.start <= cue.start < segment.end.
C14_CuesStartInsideWindow ==
    (/\ BuilderEntered
     /\ failure = "none"
     /\ segment_length > 0
     /\ SortedStarts(transcript)
     /\ NonNegativeStarts(transcript))
    => /\ \A k \in 1 .. Len(emitted) :
             \A j \in 1 .. Len(emitted[k]) : StartsInside(emitted[k][j], segments[k])
       /\ pc = "scan" =>
             \A j \in 1 .. Len(folded) : StartsInside(folded[j], current_segment)

\* A returned result for ordered cues: the initial segment with one cue, then a
\* segment opened by a cue that starts exactly at the initial segment's end and
\* holding a second cue that starts later.
C14_Witness ==
    /\ Returned
    /\ segment_length > 0
    /\ SortedStarts(transcript)
    /\ NonNegativeStarts(transcript)
    /\ Len(segments) = 2
    /\ segments[1].start = 0
    /\ Len(emitted[1]) = 1
    /\ Len(emitted[2]) = 2
    /\ transcript[emitted[2][1]].start = segments[1].end
    /\ transcript[emitted[2][2]].start > segments[2].start

====
